---- MODULE Spec2Model ----
(***************************************************************************)
(* The PCA pipeline of element_moseq/kpms_pca.py: the manual tables        *)
(* KeypointSet (with its part VideoFile), Bodyparts and PCATask, the       *)
(* auto-populated tables PCAPrep, PCAFitting and LatentDimension with      *)
(* their make() functions, the files make() leaves in the KPMS output      *)
(* directory, and the population pass that drives the three stages.        *)
(*                                                                         *)
(* Fractions (explained variance ratios, the variance threshold) are held  *)
(* in hundredths: 90 is 0.90.  A percentage x*100 of a fraction x is then  *)
(* the same integer read as a percentage.                                  *)
(***************************************************************************)
EXTENDS Integers, Sequences, FiniteSets, TLC

VARIABLES
    KeypointSet,      \* rows [kpset_id, format_method]
    VideoFile,        \* rows [kpset_id, video_id]
    Bodyparts,        \* rows [kpset_id, bodyparts_id]
    PCATask,          \* rows [kpset_id, bodyparts_id, kpms_project_output_dir]
    PCAPrep,          \* rows [kpset_id, bodyparts_id, frame_rates]
    PCAFitting,       \* rows [kpset_id, bodyparts_id, pca_fitting_time]
    LatentDimension,  \* rows [kpset_id, bodyparts_id, variance_percentage, latent_dimension, latent_dim_desc]
    fs,               \* per output directory: config.yml, kpms_dj_config.yml, pca.p
    pc,               \* the stage the population pass is in, or "idle"
    todo,             \* keys the pass has still to make in this stage
    raised,           \* <<key, why>> of the makes that raised in the pass under way
    made,             \* keys for which a make() returned in the pass under way
    prev,             \* how the last pass ended: "completed", "interrupted"; "none" after an operator's change
    prevRaised,       \* keys whose make() raised in that completed pass
    evr_in,           \* explained_variance_ratio_ handed to the variance computation
    thr_in,           \* the threshold handed to it
    ld_out            \* what it gave: {} before it ran, else one result

vars == <<KeypointSet, VideoFile, Bodyparts, PCATask, PCAPrep, PCAFitting,
          LatentDimension, fs, pc, todo, raised, made, prev,
          prevRaised, evr_in, thr_in, ld_out>>

tables == <<KeypointSet, VideoFile, Bodyparts, PCATask, PCAPrep, PCAFitting,
            LatentDimension>>

pure == <<evr_in, thr_in, ld_out>>

(***************************************************************************)
(* Bounds                                                                  *)
(***************************************************************************)
MaxKpset == 2
MaxVideo == 1
MaxClock == 1
MaxLen == 4

KpsetIds == 1..MaxKpset
VideoIds == 1..MaxVideo
\* The values datetime.now(timezone.utc) may return.
Times == 0..MaxClock
BodypartsIds == {1}
TaskKeys == KpsetIds \X BodypartsIds
Dirs == {"", "kpms"}
Stages == {"PCAPrep", "PCAFitting", "LatentDimension"}

(***************************************************************************)
(* Table declarations                                                      *)
(***************************************************************************)
PoseEstimationMethod ==
    {"deeplabcut", "sleap", "anipose", "sleap-anipose", "nwb", "facemap"}

\* The format methods the operator's inserts are drawn from.
FormatInputs == {"deeplabcut", "sleap"}

Key(r) == <<r.kpset_id, r.bodyparts_id>>

Keys(table) == {Key(r) : r \in table}

\* The foreign keys of the definitions: the keys a row may be inserted under.
KeypointSet_parent == PoseEstimationMethod

VideoFile_parent == {r.kpset_id : r \in KeypointSet}

Bodyparts_parent == {r.kpset_id : r \in KeypointSet}

\* PCATask as it would be without its "-> Bodyparts".
PCATask_parent_undeclared == TaskKeys

PCATask_parent == Keys(Bodyparts)

PCAPrep_parent == Keys(PCATask)

PCAFitting_parent == Keys(PCAPrep)

LatentDimension_parent == Keys(PCAFitting)

\* Neither table overrides key_source: it is the table's primary parent.
PCAPrep_key_source == Keys(PCATask)

PCAFitting_key_source == Keys(PCAPrep)

LatentDimension_key_source == Keys(PCAFitting)

\* insert1: the row is added unless its primary key is taken or its parent is absent.
insert1(table, row, parent) ==
    IF (\E r \in table : Key(r) = Key(row)) \/ Key(row) \notin parent
    THEN [table |-> table, raised |-> TRUE]
    ELSE [table |-> table \cup {row}, raised |-> FALSE]

(***************************************************************************)
(* Files of an output directory                                            *)
(***************************************************************************)
NoFiles == [config_yml |-> FALSE, kpms_dj_config |-> {}, pca |-> {}]

\* setup_project: creates the directory and its config.yml unless it exists.
setup_project(files, d) ==
    [files EXCEPT ![d].config_yml = TRUE]

\* generate_kpms_dj_config: writes kpms_dj_config.yml, here the config updated
\* with the video_dir and bodyparts of `key`.
generate_kpms_dj_config(files, d, key) ==
    [files EXCEPT ![d].kpms_dj_config = {key}]

\* save_pca: writes pca.p, here the explained variance ratios of the fitted model.
save_pca(files, d, pca) ==
    [files EXCEPT ![d].pca = {pca}]

(***************************************************************************)
(* The variance computation of LatentDimension.make                        *)
(***************************************************************************)
variance_threshold == 90

RECURSIVE cumsum(_)
cumsum(s) ==
    IF Len(s) = 0 THEN <<>>
    ELSE LET init == cumsum(SubSeq(s, 1, Len(s) - 1))
         IN Append(init, (IF Len(init) = 0 THEN 0 ELSE init[Len(init)]) + s[Len(s)])

\* (cs > t).nonzero()[0]: the positions (0-indexed) of the elements above t.
nonzero_gt(cs, t) == {i - 1 : i \in {j \in 1..Len(cs) : cs[j] > t}}

Min(S) == CHOOSE x \in S : \A y \in S : x <= y

\* Lines 447-456: the attributes of the row, or raised when .min() is taken of
\* an empty array.
latent_dimension_attrs(cs, t) ==
    IF cs[Len(cs)] < t
    THEN [raised |-> FALSE,
          latent_dimension |-> Len(cs),
          variance_percentage |-> cs[Len(cs)],
          latent_dim_desc |-> <<"All components together only explain", cs[Len(cs)]>>]
    ELSE IF nonzero_gt(cs, t) = {}
         THEN [raised |-> TRUE]
         ELSE [raised |-> FALSE,
               latent_dimension |-> Min(nonzero_gt(cs, t)) + 1,
               variance_percentage |-> t,
               latent_dim_desc |-> <<">=", t, Min(nonzero_gt(cs, t)) + 1>>]

(***************************************************************************)
(* make() of the three stages.  `ext` says which external call raises:     *)
(* 0 none; otherwise the ext-th group of collaborator calls of the make.   *)
(* The result is the files and the table as make leaves them, and whether  *)
(* it raised.                                                              *)
(***************************************************************************)
ExtPrep == 0..3
ExtFit == 0..1
ExtDim == 0..1

\* The models fit_pca may return, as their explained_variance_ratio_.
EVRChoices == {<<50, 25, 17, 5>>, <<50, 40>>}

fetch(table, key) == {r \in table : Key(r) = key}

The(S) == CHOOSE x \in S : TRUE

\* PCAPrep.make as it would be if an unsupported format_method made it return
\* instead of raising.
PCAPrep_make_returns_silently(key, ext) ==
    LET bodyparts == fetch(Bodyparts, key)
        task == fetch(PCATask, key)
        kpset == {r \in KeypointSet : r.kpset_id = key[1]}
        video_ids == {r.video_id : r \in {v \in VideoFile : v.kpset_id = key[1]}}
        unchanged == [fs |-> fs, table |-> PCAPrep, raised |-> TRUE]
    IN  IF Cardinality(bodyparts) # 1 \/ Cardinality(task) # 1
           \/ Cardinality(kpset) # 1 \/ ext = 1
        THEN unchanged
        ELSE LET kpms_project_output_dir == The(task).kpms_project_output_dir
                 format_method == The(kpset).format_method
                 fs1 == setup_project(fs, kpms_project_output_dir)
                 fs2 == generate_kpms_dj_config(fs1, kpms_project_output_dir, key)
                 ins == insert1(PCAPrep,
                                [kpset_id |-> key[1], bodyparts_id |-> key[2],
                                 frame_rates |-> video_ids],
                                PCAPrep_parent)
             IN  IF ext = 2
                 THEN [fs |-> fs1, table |-> PCAPrep, raised |-> TRUE]
                 ELSE IF format_method # "deeplabcut"
                      THEN [fs |-> fs2, table |-> PCAPrep, raised |-> FALSE]
                      ELSE IF ext = 3 \/ video_ids = {}
                           THEN [fs |-> fs2, table |-> PCAPrep, raised |-> TRUE]
                           ELSE [fs |-> fs2, table |-> ins.table, raised |-> ins.raised]

\* PCAPrep.make as it would be without its call of generate_kpms_dj_config.
PCAPrep_make_without_config(key, ext) ==
    LET bodyparts == fetch(Bodyparts, key)
        task == fetch(PCATask, key)
        kpset == {r \in KeypointSet : r.kpset_id = key[1]}
        video_ids == {r.video_id : r \in {v \in VideoFile : v.kpset_id = key[1]}}
        unchanged == [fs |-> fs, table |-> PCAPrep, raised |-> TRUE]
    IN  IF Cardinality(bodyparts) # 1 \/ Cardinality(task) # 1
           \/ Cardinality(kpset) # 1 \/ ext = 1
        THEN unchanged
        ELSE LET kpms_project_output_dir == The(task).kpms_project_output_dir
                 format_method == The(kpset).format_method
                 fs1 == setup_project(fs, kpms_project_output_dir)
                 ins == insert1(PCAPrep,
                                [kpset_id |-> key[1], bodyparts_id |-> key[2],
                                 frame_rates |-> video_ids],
                                PCAPrep_parent)
             IN  IF ext = 2 \/ format_method # "deeplabcut" \/ ext = 3 \/ video_ids = {}
                 THEN [fs |-> fs1, table |-> PCAPrep, raised |-> TRUE]
                 ELSE [fs |-> fs1, table |-> ins.table, raised |-> ins.raised]

PCAPrep_make(key, ext) ==
    LET bodyparts == fetch(Bodyparts, key)
        task == fetch(PCATask, key)
        kpset == {r \in KeypointSet : r.kpset_id = key[1]}
        video_ids == {r.video_id : r \in {v \in VideoFile : v.kpset_id = key[1]}}
        unchanged == [fs |-> fs, table |-> PCAPrep, raised |-> TRUE]
    IN  IF Cardinality(bodyparts) # 1 \/ Cardinality(task) # 1
           \/ Cardinality(kpset) # 1 \/ ext = 1
        THEN unchanged
        ELSE LET kpms_project_output_dir == The(task).kpms_project_output_dir
                 format_method == The(kpset).format_method
                 fs1 == setup_project(fs, kpms_project_output_dir)
                 fs2 == generate_kpms_dj_config(fs1, kpms_project_output_dir, key)
                 ins == insert1(PCAPrep,
                                [kpset_id |-> key[1], bodyparts_id |-> key[2],
                                 frame_rates |-> video_ids],
                                PCAPrep_parent)
             IN  IF ext = 2
                 THEN [fs |-> fs1, table |-> PCAPrep, raised |-> TRUE]
                 ELSE IF format_method # "deeplabcut" \/ ext = 3 \/ video_ids = {}
                      THEN [fs |-> fs2, table |-> PCAPrep, raised |-> TRUE]
                      ELSE [fs |-> fs2, table |-> ins.table, raised |-> ins.raised]

\* PCAFitting.make as it would be with its insert1 moved above fit_pca and save_pca.
PCAFitting_make_insert_first(key, ext, pca, now) ==
    LET task == fetch(PCATask, key)
        prep == fetch(PCAPrep, key)
        unchanged == [fs |-> fs, table |-> PCAFitting, raised |-> TRUE]
    IN  IF Cardinality(task) # 1
        THEN unchanged
        ELSE LET kpms_project_output_dir == The(task).kpms_project_output_dir
                 fs1 == save_pca(fs, kpms_project_output_dir, pca)
                 ins == insert1(PCAFitting,
                                [kpset_id |-> key[1], bodyparts_id |-> key[2],
                                 pca_fitting_time |-> now],
                                PCAFitting_parent)
             IN  IF fs[kpms_project_output_dir].kpms_dj_config = {}
                    \/ Cardinality(prep) # 1
                 THEN unchanged
                 ELSE IF ext = 1
                      THEN [fs |-> fs, table |-> ins.table, raised |-> TRUE]
                      ELSE [fs |-> fs1, table |-> ins.table, raised |-> ins.raised]

PCAFitting_make(key, ext, pca, now) ==
    LET task == fetch(PCATask, key)
        prep == fetch(PCAPrep, key)
        unchanged == [fs |-> fs, table |-> PCAFitting, raised |-> TRUE]
    IN  IF Cardinality(task) # 1
        THEN unchanged
        ELSE LET kpms_project_output_dir == The(task).kpms_project_output_dir
                 fs1 == save_pca(fs, kpms_project_output_dir, pca)
                 ins == insert1(PCAFitting,
                                [kpset_id |-> key[1], bodyparts_id |-> key[2],
                                 pca_fitting_time |-> now],
                                PCAFitting_parent)
             IN  IF fs[kpms_project_output_dir].kpms_dj_config = {}
                    \/ Cardinality(prep) # 1 \/ ext = 1
                 THEN unchanged
                 ELSE [fs |-> fs1, table |-> ins.table, raised |-> ins.raised]

\* LatentDimension.make as it would be if it caught the exception of load_pca
\* and returned.
LatentDimension_make_swallows(key, ext) ==
    LET task == fetch(PCATask, key)
        unchanged == [fs |-> fs, table |-> LatentDimension, raised |-> TRUE]
    IN  IF Cardinality(task) # 1
        THEN unchanged
        ELSE LET kpms_project_output_dir == The(task).kpms_project_output_dir
                 saved == fs[kpms_project_output_dir].pca
             IN  IF saved = {} \/ ext = 1
                 THEN [fs |-> fs, table |-> LatentDimension, raised |-> FALSE]
                 ELSE LET cs == cumsum(The(saved))
                          attrs == latent_dimension_attrs(cs, variance_threshold)
                      IN  IF attrs.raised
                          THEN unchanged
                          ELSE LET ins == insert1(LatentDimension,
                                         [kpset_id |-> key[1], bodyparts_id |-> key[2],
                                          variance_percentage |-> attrs.variance_percentage,
                                          latent_dimension |-> attrs.latent_dimension,
                                          latent_dim_desc |-> attrs.latent_dim_desc],
                                         LatentDimension_parent)
                               IN  [fs |-> fs, table |-> ins.table, raised |-> ins.raised]

LatentDimension_make(key, ext) ==
    LET task == fetch(PCATask, key)
        unchanged == [fs |-> fs, table |-> LatentDimension, raised |-> TRUE]
    IN  IF Cardinality(task) # 1
        THEN unchanged
        ELSE LET kpms_project_output_dir == The(task).kpms_project_output_dir
                 saved == fs[kpms_project_output_dir].pca
             IN  IF saved = {} \/ ext = 1
                 THEN unchanged
                 ELSE LET cs == cumsum(The(saved))
                          attrs == latent_dimension_attrs(cs, variance_threshold)
                      IN  IF attrs.raised
                          THEN unchanged
                          ELSE LET ins == insert1(LatentDimension,
                                         [kpset_id |-> key[1], bodyparts_id |-> key[2],
                                          variance_percentage |-> attrs.variance_percentage,
                                          latent_dimension |-> attrs.latent_dimension,
                                          latent_dim_desc |-> attrs.latent_dim_desc],
                                         LatentDimension_parent)
                               IN  [fs |-> fs, table |-> ins.table, raised |-> ins.raised]

(***************************************************************************)
(* Key Resolver and Population Driver                                      *)
(***************************************************************************)
key_source(stage) ==
    CASE stage = "PCAPrep" -> PCAPrep_key_source
      [] stage = "PCAFitting" -> PCAFitting_key_source
      [] stage = "LatentDimension" -> LatentDimension_key_source

target(stage) ==
    CASE stage = "PCAPrep" -> Keys(PCAPrep)
      [] stage = "PCAFitting" -> Keys(PCAFitting)
      [] stage = "LatentDimension" -> Keys(LatentDimension)

\* The Key Resolver as it would be if it did not take the computed keys away.
Pending_with_computed(stage) == key_source(stage)

\* The keys of the key source that have no row in the stage's table yet.
Pending(stage) == key_source(stage) \ target(stage)

RaisedKeys == {e[1] : e \in raised}

\* The pass takes `key` off its list and notes how its make ended: an exception
\* of an external collaborator, or one of the make's own.
Log(key, r, ext) ==
    /\ todo' = todo \ {key}
    /\ raised' = IF r.raised
                 THEN raised \cup {<<key, IF ext # 0 THEN "external" ELSE "make">>}
                 ELSE raised
    /\ made' = IF r.raised THEN made ELSE made \cup {key}
    /\ UNCHANGED <<pc, prev, prevRaised, pure>>

StartPass ==
    /\ pc = "idle"
    /\ pc' = "PCAPrep"
    /\ todo' = Pending("PCAPrep")
    /\ raised' = {}
    /\ made' = {}
    /\ UNCHANGED <<tables, fs, prev, prevRaised, pure>>

PopulatePCAPrep ==
    /\ pc = "PCAPrep"
    /\ \E key \in todo, ext \in ExtPrep :
          LET r == PCAPrep_make(key, ext)
          IN  /\ fs' = r.fs
              /\ PCAPrep' = r.table
              /\ Log(key, r, ext)
    /\ UNCHANGED <<KeypointSet, VideoFile, Bodyparts, PCATask, PCAFitting,
                   LatentDimension>>

PopulatePCAFitting ==
    /\ pc = "PCAFitting"
    /\ \E key \in todo, ext \in ExtFit, pca \in EVRChoices, now \in Times :
          LET r == PCAFitting_make(key, ext, pca, now)
          IN  /\ fs' = r.fs
              /\ PCAFitting' = r.table
              /\ Log(key, r, ext)
    /\ UNCHANGED <<KeypointSet, VideoFile, Bodyparts, PCATask, PCAPrep,
                   LatentDimension>>

PopulateLatentDimension ==
    /\ pc = "LatentDimension"
    /\ \E key \in todo, ext \in ExtDim :
          LET r == LatentDimension_make(key, ext)
          IN  /\ fs' = r.fs
              /\ LatentDimension' = r.table
              /\ Log(key, r, ext)
    /\ UNCHANGED <<KeypointSet, VideoFile, Bodyparts, PCATask, PCAPrep,
                   PCAFitting>>

NextStage ==
    /\ pc \in {"PCAPrep", "PCAFitting"}
    /\ todo = {}
    /\ pc' = IF pc = "PCAPrep" THEN "PCAFitting" ELSE "LatentDimension"
    /\ todo' = Pending(pc')
    /\ UNCHANGED <<tables, fs, raised, made, prev, prevRaised, pure>>

EndPass ==
    /\ pc = "LatentDimension"
    /\ todo = {}
    /\ pc' = "idle"
    /\ prev' = "completed"
    /\ prevRaised' = RaisedKeys
    /\ raised' = {}
    /\ made' = {}
    /\ UNCHANGED <<tables, fs, todo, pure>>

\* The driver is stopped between two makes.
Interrupt ==
    /\ pc # "idle"
    /\ pc' = "idle"
    /\ todo' = {}
    /\ raised' = {}
    /\ made' = {}
    /\ prev' = "interrupted"
    /\ prevRaised' = {}
    /\ UNCHANGED <<tables, fs, pure>>

(***************************************************************************)
(* The operator's inserts and deletes, made while no pass is under way.    *)
(* A delete cascades to every row that references the deleted one.         *)
(***************************************************************************)
Operator ==
    /\ pc = "idle"
    /\ prev' = "none"
    /\ prevRaised' = {}
    /\ UNCHANGED <<fs, pc, todo, raised, made, pure>>

InsertKeypointSet ==
    /\ \E id \in KpsetIds, fm \in FormatInputs :
          /\ \A r \in KeypointSet : r.kpset_id # id
          /\ fm \in KeypointSet_parent
          /\ KeypointSet' = KeypointSet \cup {[kpset_id |-> id, format_method |-> fm]}
    /\ Operator
    /\ UNCHANGED <<VideoFile, Bodyparts, PCATask, PCAPrep, PCAFitting, LatentDimension>>

InsertVideoFile ==
    /\ \E id \in KpsetIds, v \in VideoIds :
          /\ [kpset_id |-> id, video_id |-> v] \notin VideoFile
          /\ id \in VideoFile_parent
          /\ VideoFile' = VideoFile \cup {[kpset_id |-> id, video_id |-> v]}
    /\ Operator
    /\ UNCHANGED <<KeypointSet, Bodyparts, PCATask, PCAPrep, PCAFitting, LatentDimension>>

InsertBodyparts ==
    /\ \E key \in TaskKeys :
          /\ key \notin Keys(Bodyparts)
          /\ key[1] \in Bodyparts_parent
          /\ Bodyparts' = Bodyparts \cup {[kpset_id |-> key[1], bodyparts_id |-> key[2]]}
    /\ Operator
    /\ UNCHANGED <<KeypointSet, VideoFile, PCATask, PCAPrep, PCAFitting, LatentDimension>>

InsertPCATask ==
    /\ \E key \in TaskKeys, d \in Dirs :
          /\ key \notin Keys(PCATask)
          /\ key \in PCATask_parent
          /\ PCATask' = PCATask \cup {[kpset_id |-> key[1], bodyparts_id |-> key[2],
                                       kpms_project_output_dir |-> d]}
    /\ Operator
    /\ UNCHANGED <<KeypointSet, VideoFile, Bodyparts, PCAPrep, PCAFitting, LatentDimension>>

\* The table without the rows of the keys in `gone`.
without(table, gone) == {r \in table : Key(r) \notin gone}

DeleteKeypointSet ==
    /\ \E id \in {r.kpset_id : r \in KeypointSet} :
          LET gone == {key \in TaskKeys : key[1] = id}
          IN  /\ KeypointSet' = {r \in KeypointSet : r.kpset_id # id}
              /\ VideoFile' = {r \in VideoFile : r.kpset_id # id}
              /\ Bodyparts' = without(Bodyparts, gone)
              /\ PCATask' = without(PCATask, gone)
              /\ PCAPrep' = without(PCAPrep, gone)
              /\ PCAFitting' = without(PCAFitting, gone)
              /\ LatentDimension' = without(LatentDimension, gone)
    /\ Operator

DeleteBodyparts ==
    /\ \E key \in Keys(Bodyparts) :
          LET gone == {key}
          IN  /\ Bodyparts' = without(Bodyparts, gone)
              /\ PCATask' = without(PCATask, gone)
              /\ PCAPrep' = without(PCAPrep, gone)
              /\ PCAFitting' = without(PCAFitting, gone)
              /\ LatentDimension' = without(LatentDimension, gone)
    /\ Operator
    /\ UNCHANGED <<KeypointSet, VideoFile>>

DeletePCATask ==
    /\ \E key \in Keys(PCATask) :
          LET gone == {key}
          IN  /\ PCATask' = without(PCATask, gone)
              /\ PCAPrep' = without(PCAPrep, gone)
              /\ PCAFitting' = without(PCAFitting, gone)
              /\ LatentDimension' = without(LatentDimension, gone)
    /\ Operator
    /\ UNCHANGED <<KeypointSet, VideoFile, Bodyparts>>

DeletePCAPrep ==
    /\ \E key \in Keys(PCAPrep) :
          LET gone == {key}
          IN  /\ PCAPrep' = without(PCAPrep, gone)
              /\ PCAFitting' = without(PCAFitting, gone)
              /\ LatentDimension' = without(LatentDimension, gone)
    /\ Operator
    /\ UNCHANGED <<KeypointSet, VideoFile, Bodyparts, PCATask>>

DeletePCAFitting ==
    /\ \E key \in Keys(PCAFitting) :
          LET gone == {key}
          IN  /\ PCAFitting' = without(PCAFitting, gone)
              /\ LatentDimension' = without(LatentDimension, gone)
    /\ Operator
    /\ UNCHANGED <<KeypointSet, VideoFile, Bodyparts, PCATask, PCAPrep>>

DeleteLatentDimension ==
    /\ \E key \in Keys(LatentDimension) :
          LET gone == {key}
          IN  LatentDimension' = without(LatentDimension, gone)
    /\ Operator
    /\ UNCHANGED <<KeypointSet, VideoFile, Bodyparts, PCATask, PCAPrep, PCAFitting>>

(***************************************************************************)
(* The pipeline                                                            *)
(***************************************************************************)
Init ==
    /\ KeypointSet = {}
    /\ VideoFile = {}
    /\ Bodyparts = {}
    /\ PCATask = {}
    /\ PCAPrep = {}
    /\ PCAFitting = {}
    /\ LatentDimension = {}
    /\ fs = [d \in Dirs |-> NoFiles]
    /\ pc = "idle"
    /\ todo = {}
    /\ raised = {}
    /\ made = {}
    /\ prev = "none"
    /\ prevRaised = {}
    /\ evr_in = <<>>
    /\ thr_in = variance_threshold
    /\ ld_out = {}

Next ==
    \/ InsertKeypointSet
    \/ InsertVideoFile
    \/ InsertBodyparts
    \/ InsertPCATask
    \/ DeleteKeypointSet
    \/ DeleteBodyparts
    \/ DeletePCATask
    \/ DeletePCAPrep
    \/ DeletePCAFitting
    \/ DeleteLatentDimension
    \/ StartPass
    \/ PopulatePCAPrep
    \/ PopulatePCAFitting
    \/ PopulateLatentDimension
    \/ NextStage
    \/ EndPass
    \/ Interrupt

Spec == Init /\ [][Next]_vars

(***************************************************************************)
(* The variance computation alone, over bounded inputs                     *)
(***************************************************************************)
RatioValues == {5, 17, 20, 25, 30, 40, 50}

RECURSIVE Sum(_)
Sum(s) == IF Len(s) = 0 THEN 0 ELSE s[1] + Sum(Tail(s))

\* explained_variance_ratio_ of a PCA: non-increasing fractions that sum to at most 1.
EVRInputs ==
    {s \in UNION {[1..n -> RatioValues] : n \in 1..MaxLen} :
        /\ \A i \in 1..(Len(s) - 1) : s[i] >= s[i + 1]
        /\ Sum(s) <= 100}

InitLD ==
    /\ KeypointSet = {}
    /\ VideoFile = {}
    /\ Bodyparts = {}
    /\ PCATask = {}
    /\ PCAPrep = {}
    /\ PCAFitting = {}
    /\ LatentDimension = {}
    /\ fs = [d \in Dirs |-> NoFiles]
    /\ pc = "idle"
    /\ todo = {}
    /\ raised = {}
    /\ made = {}
    /\ prev = "none"
    /\ prevRaised = {}
    /\ evr_in \in EVRInputs
    /\ thr_in = variance_threshold
    /\ ld_out = {}

ApplyLatentDimension ==
    /\ ld_out = {}
    /\ ld_out' = {latent_dimension_attrs(cumsum(evr_in), thr_in)}
    /\ UNCHANGED <<tables, fs, pc, todo, raised, made, prev, prevRaised, evr_in, thr_in>>

SpecLD == InitLD /\ [][ApplyLatentDimension]_vars

(***************************************************************************)
(* The makes of the keys in any order: every task is declared, each with   *)
(* an output directory of its own or the same as another's, and any stage  *)
(* may make any of its pending keys next, as when the three populate()     *)
(* are called one key at a time or by several workers.                     *)
(***************************************************************************)
\* The model fit_pca returns for the data of `key`, as its
\* explained_variance_ratio_: a function of the data, which differ with the key.
fit_pca(key) == IF key[1] % 2 = 1 THEN <<50, 25, 17, 5>> ELSE <<30, 20>>

InitInterleaved ==
    /\ KeypointSet = {[kpset_id |-> id, format_method |-> "deeplabcut"] : id \in KpsetIds}
    /\ VideoFile = {[kpset_id |-> id, video_id |-> v] : id \in KpsetIds, v \in VideoIds}
    /\ Bodyparts = {[kpset_id |-> key[1], bodyparts_id |-> key[2]] : key \in TaskKeys}
    /\ \E dir \in [TaskKeys -> Dirs] :
          PCATask = {[kpset_id |-> key[1], bodyparts_id |-> key[2],
                      kpms_project_output_dir |-> dir[key]] : key \in TaskKeys}
    /\ PCAPrep = {}
    /\ PCAFitting = {}
    /\ LatentDimension = {}
    /\ fs = [d \in Dirs |-> NoFiles]
    /\ pc = "idle"
    /\ todo = {}
    /\ raised = {}
    /\ made = {}
    /\ prev = "none"
    /\ prevRaised = {}
    /\ evr_in = <<>>
    /\ thr_in = variance_threshold
    /\ ld_out = {}

MakePCAPrep ==
    /\ \E key \in Pending("PCAPrep"), ext \in ExtPrep :
          LET r == PCAPrep_make(key, ext)
          IN  /\ fs' = r.fs
              /\ PCAPrep' = r.table
    /\ UNCHANGED <<KeypointSet, VideoFile, Bodyparts, PCATask, PCAFitting,
                   LatentDimension, pc, todo, raised, made, prev, prevRaised, pure>>

MakePCAFitting ==
    /\ \E key \in Pending("PCAFitting"), ext \in ExtFit, now \in Times :
          LET r == PCAFitting_make(key, ext, fit_pca(key), now)
          IN  /\ fs' = r.fs
              /\ PCAFitting' = r.table
    /\ UNCHANGED <<KeypointSet, VideoFile, Bodyparts, PCATask, PCAPrep,
                   LatentDimension, pc, todo, raised, made, prev, prevRaised, pure>>

MakeLatentDimension ==
    /\ \E key \in Pending("LatentDimension"), ext \in ExtDim :
          LET r == LatentDimension_make(key, ext)
          IN  /\ fs' = r.fs
              /\ LatentDimension' = r.table
    /\ UNCHANGED <<KeypointSet, VideoFile, Bodyparts, PCATask, PCAPrep,
                   PCAFitting, pc, todo, raised, made, prev, prevRaised, pure>>

NextInterleaved ==
    \/ MakePCAPrep
    \/ MakePCAFitting
    \/ MakeLatentDimension

SpecInterleaved == InitInterleaved /\ [][NextInterleaved]_vars

(***************************************************************************)
(* Steps of a pass, as the properties below name them                      *)
(***************************************************************************)
\* The pass ran make(key) of `stage`.
MakeStep(stage, key) ==
    /\ pc = stage
    /\ pc' = stage
    /\ key \in todo
    /\ key \notin todo'

\* ... and it raised.
RaiseStep(stage, key) ==
    /\ MakeStep(stage, key)
    /\ raised' # raised

\* The output directory of a task key.
DirOf(key) == The(fetch(PCATask, key)).kpms_project_output_dir

(***************************************************************************)
(* C1.  When PCAPrep.make runs for a key whose format_method is not        *)
(* 'deeplabcut', it raises before any file is created or written and       *)
(* before any insert: the output directories and all tables are as before. *)
(***************************************************************************)
C1_UnsupportedFormatFailsFast ==
    [][\A key \in TaskKeys :
          (/\ MakeStep("PCAPrep", key)
           /\ \E r \in KeypointSet :
                 r.kpset_id = key[1] /\ r.format_method # "deeplabcut")
          => /\ raised' # raised
             /\ fs' = fs
             /\ tables' = tables]_vars

(***************************************************************************)
(* C2.  A PCATask key whose KeypointSet has no VideoFile row is never among *)
(* the keys the Key Resolver returns as pending for PCAPrep.               *)
(***************************************************************************)
C2_JoinBasedEligibility ==
    \A key \in Pending("PCAPrep") : \E v \in VideoFile : v.kpset_id = key[1]

\* The row the variance computation is to give for cs and t.
FirstAbove(cs, t, n) ==
    /\ n \in 1..Len(cs)
    /\ cs[n] > t
    /\ \A j \in 1..(n - 1) : cs[j] <= t

VarianceRowAsSpecified(r, cs, t) ==
    /\ ~r.raised
    /\ IF cs[Len(cs)] < t
       THEN /\ r.latent_dimension = Len(cs)
            /\ r.variance_percentage = cs[Len(cs)]
            /\ r.latent_dim_desc[1] = "All components together only explain"
       ELSE /\ FirstAbove(cs, t, r.latent_dimension)
            /\ r.variance_percentage = t
    /\ (cs = <<50, 75, 92, 97>> /\ t = 90)
          => (r.latent_dimension = 3 /\ r.variance_percentage = 90)
    /\ (cs = <<30, 50>> /\ t = 90)
          => (r.latent_dimension = 2 /\ r.variance_percentage = 50)

(***************************************************************************)
(* C3.  For every cumulative-variance sequence cs and threshold t the      *)
(* computation gives a row: with cs[last] < t, all components, the         *)
(* percentage cs[last]*100 and an "all components" description; otherwise  *)
(* the 1-indexed position of the first element of cs above t and the       *)
(* percentage t*100.  cs = [0.5, 0.75, 0.92, 0.97], t = 0.90 gives         *)
(* (3, 90) and cs = [0.3, 0.5], t = 0.90 gives (2, 50).                    *)
(***************************************************************************)
C3_VarianceThresholdRow ==
    \A r \in ld_out : VarianceRowAsSpecified(r, cumsum(evr_in), thr_in)

\* What the computation does satisfy: the same, for the inputs with an element
\* above t or with the last element below t.
VarianceRowUnlessLastEqualsThreshold ==
    \A r \in ld_out :
        LET cs == cumsum(evr_in)
        IN  IF cs[Len(cs)] = thr_in THEN r.raised
            ELSE VarianceRowAsSpecified(r, cs, thr_in)

C5_NoPartialRowOnFailure ==
    [][\A stage \in Stages, key \in TaskKeys :
          RaiseStep(stage, key)
          => /\ tables' = tables
             /\ key \notin target(stage)'
             /\ key \in Pending(stage)']_vars

C5_FittingRaised ==
    /\ pc = "PCAFitting"
    /\ \E key \in RaisedKeys : key \in Pending("PCAFitting") /\ key \notin todo

\* A pass that follows a completed pass with no change by the operator.
SecondPass == prev = "completed" /\ pc # "idle"

RowsKept ==
    /\ PCAPrep \subseteq PCAPrep'
    /\ PCAFitting \subseteq PCAFitting'
    /\ LatentDimension \subseteq LatentDimension'

NoRemake ==
    \A stage \in Stages, key \in TaskKeys :
        MakeStep(stage, key) => key \notin target(stage)

(***************************************************************************)
(* C6, as first stated.  A pass that follows a completed pass, with no     *)
(* change by the operator in between, inserts no row, changes and removes  *)
(* no derived row and makes no key that has a row.                         *)
(***************************************************************************)
C6_SecondPassInsertsNothing ==
    /\ [](SecondPass => made = {})
    /\ [][SecondPass => (RowsKept /\ NoRemake)]_vars

(***************************************************************************)
(* C6, as amended.  A pass that follows a completed pass, with no change   *)
(* by the operator in between, changes and removes no derived row, makes   *)
(* no key that has a row, and inserts rows only for keys whose make()      *)
(* raised in the completed pass.                                           *)
(***************************************************************************)
C6_SecondPassOnlyRetries ==
    /\ [](SecondPass => made \subseteq prevRaised)
    /\ [][SecondPass => (RowsKept /\ NoRemake)]_vars

C6_RetrySucceeded ==
    /\ SecondPass
    /\ pc = "LatentDimension"
    /\ todo = {}
    /\ made # {}
    /\ \E key \in TaskKeys : key \in Keys(LatentDimension) \ made

\* A pass invoked again after the driver was stopped.
Resumed == prev = "interrupted" /\ pc # "idle"

C8_Containment ==
    /\ Keys(LatentDimension) \subseteq Keys(PCAFitting)
    /\ Keys(PCAFitting) \subseteq Keys(PCAPrep)
    /\ Keys(PCAPrep) \subseteq Keys(PCATask)
    /\ Keys(PCATask) \subseteq Keys(Bodyparts)
    /\ \A r \in Bodyparts \cup VideoFile : \E k \in KeypointSet : k.kpset_id = r.kpset_id
    /\ \A k \in KeypointSet : k.format_method \in PoseEstimationMethod

C8_ChainAfterDelete ==
    /\ LatentDimension # {}
    /\ \E r \in Bodyparts : Key(r) \notin Keys(PCATask)
    /\ \E d \in Dirs : fs[d].pca # {} /\ \A t \in PCATask : t.kpms_project_output_dir # d

(***************************************************************************)
(* C9.  A row means its make() went through: where a PCAPrep row exists,   *)
(* the kpms_dj_config of the key's output directory has been written, and  *)
(* where a PCAFitting row exists, the model has been saved there, so that  *)
(* LatentDimension.make finds a model to load for every key pending.       *)
(***************************************************************************)
C9_RowMeansCompleted ==
    /\ \A key \in Keys(PCAPrep) :
          fs[DirOf(key)].config_yml /\ fs[DirOf(key)].kpms_dj_config # {}
    /\ \A key \in Keys(PCAFitting) : fs[DirOf(key)].pca # {}
    /\ \A key \in Pending("LatentDimension") : fs[DirOf(key)].pca # {}

C9_ModelToLoad ==
    /\ pc = "LatentDimension"
    /\ todo # {}
    /\ todo \subseteq Keys(PCAFitting)

\* A table holds one row per key.
UniqueKeys(table) == \A r1, r2 \in table : Key(r1) = Key(r2) => r1 = r2

(***************************************************************************)
(* C10.  Each stage table holds at most one row per key, the Key Resolver  *)
(* returns no key that has a row in the stage's table, the pass has no     *)
(* such key on its list, and a make() that returns did so for a key        *)
(* without a row and left its row: it returns once per key unless the row  *)
(* is deleted in between.                                                  *)
(***************************************************************************)
C10_AtMostOncePerKey ==
    /\ [](/\ UniqueKeys(PCAPrep)
          /\ UniqueKeys(PCAFitting)
          /\ UniqueKeys(LatentDimension)
          /\ \A stage \in Stages : Pending(stage) \cap target(stage) = {}
          /\ pc \in Stages => todo \cap target(pc) = {})
    /\ [][\A stage \in Stages, key \in TaskKeys :
             (MakeStep(stage, key) /\ raised' = raised)
             => (key \notin target(stage) /\ key \in target(stage)')]_vars

C10_NothingPendingOnRerun ==
    /\ pc = "PCAFitting"
    /\ prev = "completed"
    /\ Cardinality(PCAFitting) = Cardinality(TaskKeys)
    /\ Pending("PCAFitting") = {}

\* The steps in which make(key) of a stage returned: its row came to be.
Inserted(stage, key) == key \notin target(stage) /\ key \in target(stage)'

\* The attributes of the LatentDimension row of `key` when no other key is made.
AloneLatentDimension(key) ==
    latent_dimension_attrs(cumsum(fit_pca(key)), variance_threshold)

\* PCAFitting.make(key) read the config PCAPrep.make(key) wrote, and
\* LatentDimension.make(key) the model PCAFitting.make(key) saved.
ReadsItsOwn ==
    \A key \in TaskKeys :
        /\ Inserted("PCAFitting", key) => fs[DirOf(key)].kpms_dj_config = {key}
        /\ Inserted("LatentDimension", key) => fs[DirOf(key)].pca = {fit_pca(key)}

\* The LatentDimension rows are those of the keys made alone.
RowsAsAlone ==
    \A r \in LatentDimension :
        LET alone == AloneLatentDimension(Key(r))
        IN  /\ r.latent_dimension = alone.latent_dimension
            /\ r.variance_percentage = alone.variance_percentage
            /\ r.latent_dim_desc = alone.latent_dim_desc

(***************************************************************************)
(* C11.  No shared mutable state between keys: for the PCATask keys,       *)
(* whether their output directories differ or are the same, and in         *)
(* whatever order their makes are taken, PCAFitting.make(K) reads the      *)
(* config that PCAPrep.make(K) wrote and LatentDimension.make(K) the model *)
(* that PCAFitting.make(K) saved, so that the LatentDimension row of K is  *)
(* the one obtained when K is made alone.                                  *)
(***************************************************************************)
C11_NoSharedStateBetweenKeys ==
    /\ []RowsAsAlone
    /\ [][ReadsItsOwn]_vars

\* What the makes do satisfy: the same, where no two tasks have the same
\* output directory.
OwnDirectories ==
    \A t1, t2 \in PCATask :
        t1.kpms_project_output_dir = t2.kpms_project_output_dir => t1 = t2

NoSharedStateInOwnDirectories ==
    /\ [](OwnDirectories => RowsAsAlone)
    /\ [][OwnDirectories => ReadsItsOwn]_vars

\* Both keys went through the three stages in directories of their own.
BothMadeInOwnDirectories ==
    /\ OwnDirectories
    /\ Keys(LatentDimension) = TaskKeys

====
